---------------------------- MODULE Spec2Model ----------------------------
(***************************************************************************)
(* A model of the WebSocket frame codec of websocket.rs:                   *)
(*   - src/src/frame.rs      encode and the typed Frame implementations    *)
(*   - src/src/ws/client.rs  Websocket<CLIENT>::connect_with_headers,      *)
(*                           recv and Data::read                           *)
(* Bytes are the integers 0..255; a Vec<u8> or a slice is a sequence (a    *)
(* function written [i \in 1..n |-> e] is made one by `\o <<>>`).          *)
(***************************************************************************)
EXTENDS Integers, Sequences, FiniteSets

VARIABLES
    writer,     \* the output Vec<u8> of encode: its initialised contents
    call,       \* the last encode call: what it did to memory
    keyCalls,   \* how many times the key source (RandKey::key) has been called
    calls,      \* how many encode calls were issued on `writer`
    frames,     \* the arguments of the encode calls, in call order
    init,       \* the contents of `writer` before the first call
    stream,     \* every byte the server sends on the transport, in order
    pos,        \* how many of them the BufReader has consumed
    ws_len,     \* Websocket::len: unread payload bytes of the current frame
    ws_fin,     \* Websocket::fin: whether the current frame is the final one
    phase,      \* "start", "open" (a Websocket), "data" (a live Data), "failed"
    ret,        \* what the last client operation was given and returned
    http,       \* the length of the HTTP response at the head of `stream`
    declared,   \* the payload length the last frame header declared
    delivered   \* the sum of the counts read returned since that header

encodeVars == <<writer, call, keyCalls, calls, frames, init>>

clientVars == <<stream, pos, ws_len, ws_fin, phase, ret, http, declared, delivered>>

vars == <<encodeVars, clientVars>>

\* ------------------------------------------------------------------ bytes

Byte == 0..255

\* One bit of the exclusive or: a and b are 0 or 1.
BitXor(a, b) == IF a = b THEN 0 ELSE 1

\* The u8 `^` of Rust, bit by bit.
XorValue(a, b) ==
    LET bit(x, k) == (x \div (2 ^ k)) % 2
    IN  BitXor(bit(a, 0), bit(b, 0))
      + 2 * BitXor(bit(a, 1), bit(b, 1))
      + 4 * BitXor(bit(a, 2), bit(b, 2))
      + 8 * BitXor(bit(a, 3), bit(b, 3))
      + 16 * BitXor(bit(a, 4), bit(b, 4))
      + 32 * BitXor(bit(a, 5), bit(b, 5))
      + 64 * BitXor(bit(a, 6), bit(b, 6))
      + 128 * BitXor(bit(a, 7), bit(b, 7))

\* The same, tabulated once: XorTable[a + 1][b + 1] is a ^ b.
XorTable ==
    [a \in 1..256 |-> [b \in 1..256 |-> XorValue(a - 1, b - 1)] \o <<>>] \o <<>>

Xor(a, b) == XorTable[a + 1][b + 1]

\* The u8 `|` of two bytes that share no set bit is their sum; encode only
\* ors a flag in bit 7 with a value below 128, except for byte 0, whose
\* opcode the caller chooses: BitOr is the general form.
BitOr(a, b) ==
    LET bit(x, k) == (x \div (2 ^ k)) % 2
        or(k) == IF bit(a, k) = 1 \/ bit(b, k) = 1 THEN 2 ^ k ELSE 0
    IN  or(0) + or(1) + or(2) + or(3) + or(4) + or(5) + or(6) + or(7)

\* `x as u8`, `x as u16`: truncation to the width.
AsU8(x) == x % 256

AsU16(x) == x % 65536

\* u16::to_be_bytes and u64::to_be_bytes.
U16ToBeBytes(x) == <<(x \div 256) % 256, x % 256>>

\* x shifted right by 8 * n bits.
RECURSIVE ShiftRightBytes(_, _)
ShiftRightBytes(x, n) == IF n = 0 THEN x ELSE ShiftRightBytes(x \div 256, n - 1)

U64ToBeBytes(x) == [k \in 1..8 |-> ShiftRightBytes(x, 8 - k) % 256]

\* ----------------------------------------------------------------- memory

\* The marker of a byte of spare capacity that was never written.
Uninit == -1

\* The spare capacity of the Vec after reserve(additional): `additional`
\* bytes starting at start = as_mut_ptr().add(filled), none of them written.
\* `hi` is one more than the highest offset written through the pointer.
Reserve(additional) ==
    [bytes |-> [i \in 1..additional |-> Uninit] \o <<>>, hi |-> 0]

\* start.add(off).write(b). A write past the reserved capacity lands outside
\* the allocation: the region keeps its bytes and `hi` records the offset.
PtrWrite(m, off, b) ==
    [bytes |-> IF off < Len(m.bytes) THEN [m.bytes EXCEPT ![off + 1] = b]
               ELSE m.bytes,
     hi    |-> IF off + 1 > m.hi THEN off + 1 ELSE m.hi]

\* A run of writes at off, off + 1, ...: copy_nonoverlapping, or the loop
\* over data.iter().enumerate(). The writes past the reserved capacity land
\* outside the allocation.
PtrWriteAll(m, off, bs) ==
    LET cap  == Len(m.bytes)
        room == IF off >= cap THEN 0 ELSE cap - off
        fit  == IF Len(bs) <= room THEN Len(bs) ELSE room
    IN  [bytes |-> IF fit = 0 THEN m.bytes
                   ELSE SubSeq(m.bytes, 1, off) \o SubSeq(bs, 1, fit)
                        \o SubSeq(m.bytes, off + fit + 1, cap),
         hi    |-> IF Len(bs) > 0 /\ off + Len(bs) > m.hi
                   THEN off + Len(bs) ELSE m.hi]

\* ------------------------------------------------------------------ sides

\* The two values of the const generic SIDE.
SERVER == TRUE

CLIENT == FALSE

\* ----------------------------------------------------------------- encode

\* The inline length form, below this payload length (frame.rs:71).
InlineLimit == 126

\* The 16-bit length form, below this payload length (frame.rs:74).
ShortLimit == 65536

\* A reserve that counts the inline header only.
ReserveFor_InlineOnly(side, data_len) ==
    (IF SERVER = side THEN 2 ELSE 6) + data_len

\* writer.reserve(if SERVER == SIDE { 10 } else { 14 } + data_len)
ReserveFor(side, data_len) == (IF SERVER = side THEN 10 ELSE 14) + data_len

\* A mask bit that is never set.
MaskBit_NeverSet(side) == 0

\* let mask_bit = if SERVER == SIDE { 0 } else { 0x80 };
MaskBit(side) == IF SERVER = side THEN 0 ELSE 128

\* fin shifted by 6 instead of 7.
WriteByte0_Shift6(m, fin, opcode) ==
    PtrWrite(m, 0, BitOr((IF fin THEN 1 ELSE 0) * 64, opcode))

\* start.write(((fin as u8) << 7) | opcode)
WriteByte0(m, fin, opcode) ==
    PtrWrite(m, 0, BitOr((IF fin THEN 1 ELSE 0) * 128, opcode))

\* The conditions of the `let len = if ... else if ... else ...` of encode:
\* which of its three branches is taken.
LengthForm_OffByOne(data_len) ==
    IF data_len <= InlineLimit THEN "inline"
    ELSE IF data_len <= ShortLimit THEN "short" ELSE "long"

LengthForm(data_len) ==
    IF data_len < InlineLimit THEN "inline"
    ELSE IF data_len < ShortLimit THEN "short" ELSE "long"

\* The length field: the branches of that `if`. The result is the memory
\* after the writes and `len`, the number of bytes so far.
WriteLength(m, mask_bit, data_len) ==
    IF LengthForm(data_len) = "inline" THEN
        [m |-> PtrWrite(m, 1, BitOr(mask_bit, AsU8(data_len))), len |-> 2]
    ELSE IF LengthForm(data_len) = "short" THEN
        LET b  == U16ToBeBytes(AsU16(data_len))
            m1 == PtrWrite(m, 1, BitOr(mask_bit, 126))
            m2 == PtrWrite(m1, 2, b[1])
            m3 == PtrWrite(m2, 3, b[2])
        IN  [m |-> m3, len |-> 4]
    ELSE
        LET b  == U64ToBeBytes(data_len)
            m1 == PtrWrite(m, 1, BitOr(mask_bit, 127))
            m2 == PtrWrite(m1, 2, b[1])
            m3 == PtrWrite(m2, 3, b[2])
            m4 == PtrWrite(m3, 4, b[3])
            m5 == PtrWrite(m4, 5, b[4])
            m6 == PtrWrite(m5, 6, b[5])
            m7 == PtrWrite(m6, 7, b[6])
            m8 == PtrWrite(m7, 8, b[7])
            m9 == PtrWrite(m8, 9, b[8])
        IN  [m |-> m9, len |-> 10]

\* The key indexed from 1: mask[(index + 1) % 4].
MaskPayload_KeyShifted(data, mask) ==
    [i \in 1..Len(data) |-> Xor(data[i], mask[(i % 4) + 1])] \o <<>>

\* byte ^ mask.get_unchecked(index % 4), for every (index, byte) of data
MaskPayload(data, mask) ==
    [i \in 1..Len(data) |-> Xor(data[i], mask[((i - 1) % 4) + 1])] \o <<>>

\* The `let header_len = if SERVER == SIDE {...} else {...}` of encode: the
\* payload, and on the client side the key before it. `keys` counts the
\* calls of Mask::key().
WritePayload(m, side, len, data, mask) ==
    IF SERVER = side THEN
        [m |-> PtrWriteAll(m, len, data), header_len |-> len, keys |-> 0]
    ELSE
        LET m1 == PtrWrite(m, len, mask[1])
            m2 == PtrWrite(m1, len + 1, mask[2])
            m3 == PtrWrite(m2, len + 2, mask[3])
            m4 == PtrWrite(m3, len + 3, mask[4])
        IN  [m |-> PtrWriteAll(m4, len + 4, MaskPayload(data, mask)),
             header_len |-> len + 4, keys |-> 1]

\* encode::<SIDE, Mask>(writer, fin, opcode, data), where `mask` is what
\* Mask::key() returns if it is called. The result: the memory of the spare
\* capacity after the writes, the length set_len installs, and the count of
\* key calls.
EncodeRun(w, side, fin, opcode, data, mask) ==
    LET data_len == Len(data)
        reserved == ReserveFor(side, data_len)
        filled   == Len(w)
        m0       == WriteByte0(Reserve(reserved), fin, opcode)
        l        == WriteLength(m0, MaskBit(side), data_len)
        p        == WritePayload(l.m, side, l.len, data, mask)
    IN  [filled     |-> filled,
         reserved   |-> reserved,
         mem        |-> p.m,
         header_len |-> p.header_len,
         new_len    |-> filled + p.header_len + data_len,
         keys       |-> p.keys]

\* A set_len that forgets the old contents.
AfterSetLen_FromZero(w, r) == SubSeq(r.mem.bytes, 1, r.new_len - r.filled)

\* The Vec after set_len(new_len): the old contents, then the first
\* new_len - filled bytes of what was the spare capacity. Bytes past the
\* reserved capacity are not the Vec's: they show as Uninit.
AfterSetLen(w, r) ==
    LET n   == r.new_len - r.filled
        cap == Len(r.mem.bytes)
    IN  IF n <= cap THEN w \o SubSeq(r.mem.bytes, 1, n)
        ELSE w \o r.mem.bytes \o [i \in 1..(n - cap) |-> Uninit]

\* ------------------------------------------------------------ typed kinds

\* str::as_bytes: a str is a sequence of code points, its bytes their UTF-8
\* encoding (code points below 0x800 here: one or two bytes each).
Utf8(c) == IF c < 128 THEN <<c>> ELSE <<192 + (c \div 64), 128 + (c % 64)>>

RECURSIVE AsBytes(_)
AsBytes(s) == IF s = <<>> THEN <<>> ELSE Utf8(Head(s)) \o AsBytes(Tail(s))

\* The status code in little-endian order.
CloseData_LittleEndian(code, reason) == <<code % 256, (code \div 256) % 256>> \o reason

\* The payload Close builds: data.extend_from_slice(&self.code.to_be_bytes()),
\* then data.extend_from_slice(self.reason).
CloseData(code, reason) == U16ToBeBytes(code) \o reason

\* The arguments a Frame implementation passes to encode: for every kind
\* fin is true; the opcode and the data depend on the kind.
FrameArgs(v) ==
    CASE v.kind = "str"   -> [fin |-> TRUE, opcode |-> 1, data |-> AsBytes(v.text)]
      [] v.kind = "slice" -> [fin |-> TRUE, opcode |-> 2, data |-> v.bytes]
      [] v.kind = "array" -> [fin |-> TRUE, opcode |-> 2, data |-> v.bytes]
      [] v.kind = "ping"  -> [fin |-> TRUE, opcode |-> 9, data |-> v.bytes]
      [] v.kind = "pong"  -> [fin |-> TRUE, opcode |-> 10, data |-> v.bytes]
      [] v.kind = "close" -> [fin |-> TRUE, opcode |-> 8,
                              data |-> CloseData(v.code, v.reason)]

\* impl Frame for &T and for Box<T>: T::encode::<SIDE>(self, writer). The
\* wrapper is dropped and the wrapped value encodes itself.
Unwrap(v) == [v EXCEPT !.wrap = "none"]

\* ----------------------------------------------------------------- inputs

\* Longest patterned payload below the boundary lengths, and the number of
\* encode calls issued on one buffer.
MaxSmallLen == 2

MaxCalls == 2

\* b"Hello", b"Hel", b"lo" (the payloads of the tests of frame.rs) and b"bye".
Hello == <<72, 101, 108, 108, 111>>

Hel == <<72, 101, 108>>

Lo == <<108, 111>>

Bye == <<98, 121, 101>>

\* A payload of n bytes whose bytes differ along it and exceed 127.
Pattern(n) == [i \in 1..n |-> (i * 37 + 91) % 256] \o <<>>

\* The payload lengths around the two limits of the length field.
BoundaryLens ==
    {InlineLimit - 1, InlineLimit, InlineLimit + 1, ShortLimit - 1, ShortLimit}

SmallPayloads == {Pattern(n) : n \in 0..MaxSmallLen} \cup {Hello, Hel, Lo}

\* Every payload, and the opcodes the two longest are tried with.
Payloads == SmallPayloads \cup {Pattern(n) : n \in BoundaryLens}

LargeOpcodes == {1, 2, 9, 10}

\* What Mask::key() may return: the key of the tests of frame.rs, and one
\* with the high bits set.
Keys == {<<55, 250, 33, 61>>, <<255, 128, 0, 1>>}

\* The key a call on `side` draws: none (the empty sequence) on the server
\* side, where Mask::key() is not called.
KeysOf(side) == IF SERVER = side THEN {<<>>} ELSE Keys

Opcodes == 0..15

Sides == {SERVER, CLIENT}

\* What the buffer may hold before the first call.
InitBuffers == {<<>>, <<1, 2, 3>>}

NoCall == [kind |-> "none"]

NoRet == [op |-> "none"]

\* No connection: the client side is not used.
NoClient ==
    /\ stream = <<>>
    /\ pos = 0
    /\ ws_len = 0
    /\ ws_fin = TRUE
    /\ phase = "none"
    /\ ret = NoRet
    /\ http = 0
    /\ declared = 0
    /\ delivered = 0

\* The value of a call that did not come through a Frame implementation.
Raw == [wrap |-> "none", kind |-> "raw"]

\* ---------------------------------------------------------------- actions

\* One call encode::<side, Mask>(&mut writer, fin, opcode, data), Mask::key()
\* returning `mask`; `value` is the typed value the call came from.
Encode(value, side, fin, opcode, data, mask) ==
    \E r \in {EncodeRun(writer, side, fin, opcode, data, mask)} :
        /\ writer' = AfterSetLen(writer, r)
        /\ keyCalls' = keyCalls + r.keys
        /\ calls' = calls + 1
        /\ call' = [kind |-> value.kind, filled |-> r.filled,
                    reserved |-> r.reserved, hi |-> r.mem.hi,
                    header_len |-> r.header_len, new_len |-> r.new_len,
                    keys |-> r.keys]
        /\ frames' = Append(frames, [side |-> side, fin |-> fin,
                                     opcode |-> opcode, data |-> data,
                                     mask |-> mask, value |-> value])
        /\ UNCHANGED <<init, clientVars>>

\* A direct call of frame::encode with any arguments, applied once to a
\* fresh buffer.
EncodeOnce ==
    /\ calls = 0
    /\ \E side \in Sides, fin \in BOOLEAN, opcode \in Opcodes, data \in Payloads :
          /\ Len(data) + 1 >= ShortLimit => opcode \in LargeOpcodes
          /\ \E mask \in KeysOf(side) :
                Encode(Raw, side, fin, opcode, data, mask)

InitEncode ==
    /\ writer \in InitBuffers
    /\ init = writer
    /\ call = NoCall
    /\ keyCalls = 0
    /\ calls = 0
    /\ frames = <<>>
    /\ NoClient

NextEncode == EncodeOnce

SpecEncode == InitEncode /\ [][NextEncode]_vars

\* <V as Frame>::encode::<side>(&v, &mut writer), RandMask::key() returning
\* `mask`.
FrameEncode(v, side, mask) ==
    LET a == FrameArgs(IF v.wrap = "none" THEN v ELSE Unwrap(v))
    IN  Encode(v, side, a.fin, a.opcode, a.data, mask)

\* "Hello" and "H\u{e9}" as code points.
Texts == {Hello, <<72, 233>>}

\* The values of the kinds that implement Frame, unwrapped.
PlainValues ==
    {[wrap |-> "none", kind |-> "str", text |-> t] : t \in Texts}
    \cup {[wrap |-> "none", kind |-> k, bytes |-> Hello] :
             k \in {"slice", "array", "ping", "pong"}}
    \cup {[wrap |-> "none", kind |-> "close", code |-> 1000, reason |-> Bye]}

\* The same behind a reference or in a Box.
Values ==
    {[v EXCEPT !.wrap = w] : v \in PlainValues, w \in {"none", "ref", "box"}}

\* The payloads and opcodes of the direct calls made on a shared buffer.
StreamPayloads == {Hel, Lo}

StreamOpcodes == {0, 1}

\* The key of the tests of frame.rs.
TestKey == <<55, 250, 33, 61>>

\* A direct call of frame::encode on the shared buffer.
EncodeCall ==
    /\ calls < MaxCalls
    /\ \E side \in Sides, fin \in BOOLEAN, opcode \in StreamOpcodes,
          data \in StreamPayloads :
          Encode(Raw, side, fin, opcode, data,
                 IF SERVER = side THEN <<>> ELSE TestKey)

\* A call of Frame::encode of a typed value on the shared buffer.
EncodeValue ==
    /\ calls < MaxCalls
    /\ \E v \in Values, side \in Sides :
          FrameEncode(v, side, IF SERVER = side THEN <<>> ELSE TestKey)

InitStream ==
    /\ writer \in InitBuffers
    /\ init = writer
    /\ call = NoCall
    /\ keyCalls = 0
    /\ calls = 0
    /\ frames = <<>>
    /\ NoClient

NextStream == EncodeCall \/ EncodeValue

SpecStream == InitStream /\ [][NextStream]_vars

\* -------------------------------------------------------- RFC 6455 framing

\* The frame RFC 6455 prescribes, written from the wire format and not from
\* encode: byte 0, the length field, the key and the masked payload on the
\* client side, the payload on the server side.
RfcByte0(fin, opcode) == (IF fin THEN 128 ELSE 0) + opcode

RfcLengthField(masked, n) ==
    LET m == IF masked THEN 128 ELSE 0
    IN  IF n <= 125 THEN <<m + n>>
        ELSE IF n <= 65535 THEN <<m + 126, n \div 256, n % 256>>
        ELSE <<m + 127, 0, 0, 0, 0, (n \div 16777216) % 256,
               (n \div 65536) % 256, (n \div 256) % 256, n % 256>>

RfcMasked(payload, key) ==
    [i \in 1..Len(payload) |-> Xor(payload[i], key[((i - 1) % 4) + 1])] \o <<>>

RfcFrame(side, fin, opcode, payload, key) ==
    <<RfcByte0(fin, opcode)>>
    \o RfcLengthField(side = CLIENT, Len(payload))
    \o (IF side = CLIENT THEN key \o RfcMasked(payload, key) ELSE payload)

\* The arguments of the last call, and the bytes it appended.
Last == frames[Len(frames)]

Called == call.kind # "none"

Appended == SubSeq(writer, call.filled + 1, Len(writer))

\* The number of bytes of the length field and the bytes before it.
RfcHeaderLen(n) == IF n <= 125 THEN 2 ELSE IF n <= 65535 THEN 4 ELSE 10

\* C1: for every side, fin, opcode in 0..15, payload and key, encode appends
\* exactly the RFC 6455 frame to the buffer; the two vectors of the tests
\* ("Hello" unmasked, and masked with 37 fa 21 3d) come out byte for byte.
C1_EncodeAppendsRfcFrame ==
    Called =>
        /\ writer = init \o RfcFrame(Last.side, Last.fin, Last.opcode,
                                     Last.data, Last.mask)
        /\ (Last.fin /\ Last.opcode = 1 /\ Last.data = Hello /\ Last.side = SERVER)
              => Appended = <<129, 5, 72, 101, 108, 108, 111>>
        /\ (Last.fin /\ Last.opcode = 1 /\ Last.data = Hello /\ Last.side = CLIENT
              /\ Last.mask = TestKey)
              => Appended = <<129, 133, 55, 250, 33, 61, 127, 159, 77, 81, 88>>

\* A masked frame with the 16-bit length form was appended after earlier
\* bytes.
C1_Witness ==
    /\ Called /\ Last.side = CLIENT /\ Len(Last.data) = InlineLimit
    /\ Last.opcode = 15 /\ ~Last.fin /\ init # <<>>
    /\ writer[Len(init) + 2] = 254

\* C2: on the server side the payload is preceded by exactly 2 header bytes
\* when its length is 0..125, 4 when it is 126..65535 and 10 when it is 65536
\* or more, and the length indicator is the one of the shortest form.
C2_CanonicalLengthForm ==
    (Called /\ Last.side = SERVER) =>
        LET n == Len(Last.data)
            h == Len(Appended) - n
            indicator == Appended[2] % 128
        IN  /\ h = (IF n <= 125 THEN 2 ELSE IF n <= 65535 THEN 4 ELSE 10)
            /\ SubSeq(Appended, h + 1, Len(Appended)) = Last.data
            /\ (indicator < 126) = (n <= 125)
            /\ (indicator = 126) = (n >= 126 /\ n <= 65535)
            /\ (indicator = 127) = (n >= 65536)
            /\ indicator < 126 => indicator = n
            /\ indicator = 126 => Appended[3] * 256 + Appended[4] = n

\* A server frame whose payload has the first length of the 16-bit form.
C2_Witness ==
    /\ Called /\ Last.side = SERVER /\ Len(Last.data) = InlineLimit
    /\ Len(Appended) = InlineLimit + 4

\* C10: every offset encode writes through the raw pointer is below the
\* capacity reserved at the start of the call (10 or 14 plus the payload
\* length), every byte of [old length, new length) is written, and the
\* length set_len installs is old length + header_len + payload length,
\* within the reserved capacity.
C10_RawWritesInBounds ==
    Called =>
        /\ call.reserved = (IF Last.side = SERVER THEN 10 ELSE 14) + Len(Last.data)
        /\ call.hi <= call.reserved
        /\ call.new_len = call.filled + call.header_len + Len(Last.data)
        /\ call.new_len <= call.filled + call.reserved
        /\ call.hi = call.new_len - call.filled
        /\ Len(writer) = call.new_len
        /\ call.filled = Len(init)
        /\ \A i \in (call.filled + 1)..Len(writer) : writer[i] # Uninit

\* A client frame with the 16-bit length form: 8 header bytes of the 14
\* reserved, written after the bytes the buffer held.
C10_Witness ==
    /\ Called /\ Last.side = CLIENT /\ Len(Last.data) = InlineLimit + 1
    /\ call.filled = 3 /\ call.hi = InlineLimit + 9
    /\ call.reserved = InlineLimit + 15

\* ----------------------------------------------------------- header reader

\* The Header Reader: fin = bit 7 of byte 0, opcode = bits 0-3, masked = bit
\* 7 of byte 1, the length from the 7-bit, 16-bit or 64-bit form, then the
\* 4-byte key if masked. `hdr` is the number of header bytes; ok is false
\* when the bytes end before the header does (or the length exceeds what an
\* integer of the model holds).
ReadHeader(bs) ==
    IF Len(bs) < 2 THEN [ok |-> FALSE]
    ELSE
        LET indicator == bs[2] % 128
            masked    == bs[2] >= 128
            ext       == IF indicator < 126 THEN 0 ELSE IF indicator = 126 THEN 2 ELSE 8
            hdr       == 2 + ext + (IF masked THEN 4 ELSE 0)
        IN  IF Len(bs) < hdr THEN [ok |-> FALSE]
            ELSE IF ext = 8 /\ (bs[3] + bs[4] + bs[5] + bs[6] > 0 \/ bs[7] >= 128)
            THEN [ok |-> FALSE]
            ELSE [ok     |-> TRUE,
                  fin    |-> bs[1] >= 128,
                  opcode |-> bs[1] % 16,
                  masked |-> masked,
                  len    |-> IF ext = 0 THEN indicator
                             ELSE IF ext = 2 THEN bs[3] * 256 + bs[4]
                             ELSE ((bs[7] * 256 + bs[8]) * 256 + bs[9]) * 256 + bs[10],
                  key    |-> IF masked THEN SubSeq(bs, hdr - 3, hdr) ELSE <<>>,
                  hdr    |-> hdr]

\* Unmasking with the key of the header: payload[i] XOR key[i % 4].
Unmask(payload, h) ==
    IF h.masked
    THEN [i \in 1..Len(payload) |-> Xor(payload[i], h.key[((i - 1) % 4) + 1])] \o <<>>
    ELSE payload

\* C4: for every payload, opcode in {1, 2, 9, 10}, side and key, reading the
\* header of the bytes encode(fin = true, o, p) appended and unmasking what
\* follows with the key read gives back fin = true, o and p, and no byte is
\* left over.
C4_RoundTrip ==
    (Called /\ Last.fin /\ Last.opcode \in {1, 2, 9, 10}) =>
        LET h == ReadHeader(Appended)
        IN  /\ h.ok
            /\ h.fin
            /\ h.opcode = Last.opcode
            /\ h.masked = (Last.side = CLIENT)
            /\ h.len = Len(Last.data)
            /\ h.hdr + h.len = Len(Appended)
            /\ Unmask(SubSeq(Appended, h.hdr + 1, h.hdr + h.len), h) = Last.data

\* A masked pong with the 16-bit length form went through the round trip.
C4_Witness ==
    /\ Called /\ Last.fin /\ Last.opcode = 10 /\ Last.side = CLIENT
    /\ Len(Last.data) = InlineLimit + 1
    /\ ReadHeader(Appended).key = Last.mask
    /\ Appended[9] # Last.data[1]

\* The frame the model's encode makes of the last call's fin, opcode and
\* payload on `side`, on an empty buffer.
FrameOn(side) ==
    AfterSetLen(<<>>, EncodeRun(<<>>, side, Last.fin, Last.opcode, Last.data,
                                IF side = SERVER THEN <<>> ELSE TestKey))

\* The number of client frames among the calls.
ClientFrames == Cardinality({i \in 1..Len(frames) : frames[i].side = CLIENT})

\* C3: for identical fin, opcode and payload, the client frame has bit 7 of
\* byte 1 set and the 4-byte key between the length field and the payload,
\* so it is exactly 4 bytes longer; the server frame has neither; the key
\* source is called once per client frame and never for a server frame.
C3_SideAsymmetry ==
    /\ keyCalls = ClientFrames
    /\ Called =>
          LET c  == FrameOn(CLIENT)
              sv == FrameOn(SERVER)
              n  == Len(Last.data)
              lf == Len(sv) - n
          IN  /\ Appended = (IF Last.side = CLIENT THEN c ELSE sv)
              /\ c[2] >= 128
              /\ sv[2] < 128
              /\ c[2] = sv[2] + 128
              /\ Len(c) = Len(sv) + 4
              /\ SubSeq(c, 1, 1) = SubSeq(sv, 1, 1)
              /\ SubSeq(c, 3, lf) = SubSeq(sv, 3, lf)
              /\ SubSeq(c, lf + 1, lf + 4) = TestKey
              /\ SubSeq(sv, lf + 1, Len(sv)) = Last.data
              /\ call.keys = (IF Last.side = CLIENT THEN 1 ELSE 0)
              /\ call.header_len = (IF Last.side = CLIENT THEN lf + 4 ELSE lf)

\* A client frame followed a server frame: one key call for the two.
C3_Witness ==
    /\ Len(frames) = 2 /\ frames[1].side = SERVER /\ frames[2].side = CLIENT
    /\ keyCalls = 1 /\ call.keys = 1
    /\ Len(FrameOn(CLIENT)) = Len(FrameOn(SERVER)) + 4

\* The frames of the calls, one after the other.
RECURSIVE RfcFrames(_)
RfcFrames(fs) ==
    IF fs = <<>> THEN <<>>
    ELSE LET f == Head(fs)
         IN  RfcFrame(f.side, f.fin, f.opcode, f.data, f.mask) \o RfcFrames(Tail(fs))

\* header_len + payload length of each call, added up.
RECURSIVE Growth(_)
Growth(fs) ==
    IF fs = <<>> THEN 0
    ELSE LET f == Head(fs)
         IN  RfcHeaderLen(Len(f.data)) + (IF f.side = CLIENT THEN 4 ELSE 0)
             + Len(f.data) + Growth(Tail(fs))

\* C5: after any sequence of encode calls on one buffer, the buffer is its
\* initial contents followed by the frames in call order; a call leaves the
\* bytes before it unchanged and grows the length by header_len + payload
\* length. Server encode(false, 1, "Hel") then encode(true, 0, "lo") gives
\* 01 03 48 65 6c 80 02 6c 6f.
C5_AppendOnly ==
    /\ writer = init \o RfcFrames(frames)
    /\ Len(writer) = Len(init) + Growth(frames)
    /\ Called =>
          /\ SubSeq(writer, 1, call.filled)
                = init \o RfcFrames(SubSeq(frames, 1, Len(frames) - 1))
          /\ Len(writer) = call.filled + call.header_len + Len(Last.data)
    /\ (/\ Len(frames) = 2 /\ init = <<>>
        /\ frames[1] = [side |-> SERVER, fin |-> FALSE, opcode |-> 1, data |-> Hel,
                         mask |-> <<>>, value |-> Raw]
        /\ frames[2] = [side |-> SERVER, fin |-> TRUE, opcode |-> 0, data |-> Lo,
                         mask |-> <<>>, value |-> Raw])
          => writer = <<1, 3, 72, 101, 108, 128, 2, 108, 111>>

\* The fragmented text message of the tests: "Hel", then "lo".
C5_Witness ==
    /\ Len(frames) = 2
    /\ frames[1].side = SERVER /\ ~frames[1].fin /\ frames[1].opcode = 1
    /\ frames[1].data = Hel /\ frames[1].value = Raw
    /\ frames[2].side = SERVER /\ frames[2].fin /\ frames[2].opcode = 0
    /\ frames[2].data = Lo /\ frames[2].value = Raw
    /\ call.filled = 5 /\ writer = <<1, 3, 72, 101, 108, 128, 2, 108, 111>>

\* The opcode and the payload of each kind, as the wire format has them.
KindOpcode(v) ==
    CASE v.kind = "str" -> 1
      [] v.kind \in {"slice", "array"} -> 2
      [] v.kind = "close" -> 8
      [] v.kind = "ping" -> 9
      [] v.kind = "pong" -> 10

KindPayload(v) ==
    CASE v.kind = "str" -> IF v.text = Hello THEN Hello ELSE <<72, 195, 169>>
      [] v.kind = "close" -> <<v.code \div 256, v.code % 256>> \o v.reason
      [] OTHER -> v.bytes

\* C6: every typed kind is encoded as one frame with fin = true and the
\* opcode of its kind (str 1, [u8] and [u8; N] 2, Ping 9, Pong 10, Close 8
\* with the big-endian code and the reason: 1000 and "bye" give 03 E8 62 79
\* 65); a &T or a Box<T> gives the frame of the value it wraps.
C6_TypedKinds ==
    (Called /\ call.kind # "raw") =>
        LET v == Last.value
        IN  /\ Appended = RfcFrame(Last.side, TRUE, KindOpcode(v), KindPayload(v),
                                    Last.mask)
            /\ calls = Len(frames)
            /\ (v.kind = "close" /\ v.code = 1000 /\ v.reason = Bye /\ Last.side = SERVER)
                  => Appended = <<136, 5, 3, 232, 98, 121, 101>>

\* A boxed Close was encoded on the client side after a text in two bytes
\* of UTF-8.
C6_Witness ==
    /\ Len(frames) = 2
    /\ frames[1].value.kind = "str" /\ frames[1].data = <<72, 195, 169>>
    /\ Last.value.kind = "close" /\ Last.value.wrap = "box"
    /\ Last.side = CLIENT /\ Last.opcode = 8

\* ------------------------------------------------------------ client: read

\* The longest buffer handed to Data::read, and the number of frames the
\* server sends.
MaxBufLen == 2

MaxScriptFrames == 2

Min(a, b) == IF a <= b THEN a ELSE b

\* usize `a - b`. A negative result stands for the underflow: the value
\* 2^64 + (a - b) in a release build, a panic in a debug build.
SubUsize(a, b) == a - b

\* The frame the server makes of (fin, opcode, data): encode::<SERVER, _>.
ServerFrame(f, opcode, data) ==
    AfterSetLen(<<>>, EncodeRun(<<>>, SERVER, f, opcode, data, <<>>))

ScriptFrames ==
    {ServerFrame(f, o, d) : f \in BOOLEAN, o \in {0, 1, 2}, d \in {<<>>, Lo}}

\* What the server sends: up to k frames, one after the other.
RECURSIVE ScriptsOf(_)
ScriptsOf(k) ==
    IF k = 0 THEN {<<>>}
    ELSE LET shorter == ScriptsOf(k - 1)
         IN  shorter \cup {s \o f : s \in shorter, f \in ScriptFrames}

\* The bytes of the transport that were not consumed yet.
Unread == SubSeq(stream, pos + 1, Len(stream))

\* read_data_frame_header, as recv uses it: the Header Reader on the unread
\* bytes; the frame must be an unmasked text or binary frame. On success
\* the header is consumed and len and fin are those of the header.
Recv ==
    /\ phase = "open"
    /\ LET h == ReadHeader(Unread)
       IN  IF h.ok /\ ~h.masked /\ h.opcode \in {1, 2}
           THEN /\ pos' = pos + h.hdr
                /\ ws_len' = h.len
                /\ ws_fin' = h.fin
                /\ phase' = "data"
                /\ declared' = h.len
                /\ delivered' = 0
                /\ ret' = [op |-> "recv", ok |-> TRUE,
                           ty |-> IF h.opcode = 1 THEN "Text" ELSE "Binary"]
           ELSE /\ phase' = "failed"
                /\ ret' = [op |-> "recv", ok |-> FALSE]
                /\ UNCHANGED <<pos, ws_len, ws_fin, declared, delivered>>
    /\ UNCHANGED <<stream, http, encodeVars>>

\* read_bytes(stream, n, cb): what it may return. It hands at most n of the
\* buffered bytes to cb and consumes them; at the end of the stream, or on a
\* transport error, it fails.
ReadBytes(n) ==
    LET avail == Len(stream) - pos
    IN  {[ok |-> FALSE, amt |-> 0]}
        \cup (IF n = 0 THEN {[ok |-> TRUE, amt |-> 0]}
              ELSE {[ok |-> TRUE, amt |-> a] : a \in 1..Min(n, avail)})

\* A request of the whole buffer, whatever is left of the frame.
ReadRequest_WholeBuffer(buf_len) == buf_len

\* buf.len().min(self.ws.len)
ReadRequest(buf_len) == Min(buf_len, ws_len)

\* Data::read(buf) with buf.len() = buf_len: read_bytes is asked for
\* ReadRequest bytes; if it fails, `?` returns the error; else len is
\* decremented by the count and the count is returned.
Read(buf_len) ==
    /\ phase = "data"
    /\ \E r \in ReadBytes(ReadRequest(buf_len)) :
          /\ ret' = [op |-> "read", ok |-> r.ok, buf_len |-> buf_len,
                     requested |-> ReadRequest(buf_len), amt |-> r.amt,
                     len_before |-> ws_len, fin_before |-> ws_fin]
          /\ IF r.ok
             THEN /\ pos' = pos + r.amt
                  /\ ws_len' = SubUsize(ws_len, r.amt)
                  /\ delivered' = delivered + r.amt
             ELSE UNCHANGED <<pos, ws_len, delivered>>
    /\ UNCHANGED <<stream, ws_fin, phase, http, declared, encodeVars>>

\* The Data handle is dropped: the Websocket can be borrowed again.
DropData ==
    /\ phase = "data"
    /\ phase' = "open"
    /\ ret' = [op |-> "drop"]
    /\ UNCHANGED <<stream, pos, ws_len, ws_fin, http, declared, delivered,
                   encodeVars>>

NoEncode ==
    /\ writer = <<>>
    /\ init = <<>>
    /\ call = NoCall
    /\ keyCalls = 0
    /\ calls = 0
    /\ frames = <<>>

\* A Websocket<CLIENT> as connect builds it (len: 0, fin: true), its
\* transport at the start of the first frame the server sends.
InitRead ==
    /\ stream \in ScriptsOf(MaxScriptFrames)
    /\ pos = 0
    /\ ws_len = 0
    /\ ws_fin = TRUE
    /\ phase = "open"
    /\ ret = NoRet
    /\ http = 0
    /\ declared = 0
    /\ delivered = 0
    /\ NoEncode

NextRead == Recv \/ (\E n \in 0..MaxBufLen : Read(n)) \/ DropData

SpecRead == InitRead /\ [][NextRead]_vars

\* C9: Data::read(buf) asks the transport for at most min(buf.len(), len)
\* bytes, decrements len by exactly the count delivered, returns it and
\* leaves fin as it was; so within a frame len never grows and never goes
\* below 0, the counts returned add up to no more than the declared payload
\* length, and a failed read leaves len and fin unchanged.
C9_ReadAccounting ==
    /\ ws_len >= 0
    /\ phase = "data" =>
          /\ delivered <= declared
          /\ delivered + ws_len = declared
    /\ ret.op = "read" =>
          /\ ret.requested <= ret.buf_len
          /\ ret.requested <= ret.len_before
          /\ ret.amt <= ret.requested
          /\ ws_fin = ret.fin_before
          /\ ws_len <= ret.len_before
          /\ ret.ok => ws_len = ret.len_before - ret.amt
          /\ ~ret.ok => (ws_len = ret.len_before /\ ret.amt = 0)

\* A read into a buffer longer than what is left of the frame delivered
\* the rest of the payload, after an earlier, shorter read.
C9_Witness ==
    /\ ret.op = "read" /\ ret.ok
    /\ ret.buf_len = 2 /\ ret.len_before = 1 /\ ret.amt = 1
    /\ ws_len = 0 /\ delivered = 2 /\ declared = 2

\* C7 (as claimed): a read into a non-empty buffer returns 0 only when
\* len = 0 and fin = true; with len = 0 and fin = false the read goes on
\* to the continuation frame instead.
C7_ZeroOnlyAtMessageEnd ==
    (ret.op = "read" /\ ret.ok /\ ret.buf_len > 0 /\ ret.amt = 0)
        => (ws_len = 0 /\ ws_fin)

\* --------------------------------------------------------- client: connect

\* "HTTP/1.1 101 Switching Protocols\r\n"
StatusLine ==
    <<72, 84, 84, 80, 47, 49, 46, 49, 32, 49, 48, 49, 32, 83, 119, 105, 116,
      99, 104, 105, 110, 103, 32, 80, 114, 111, 116, 111, 99, 111, 108, 115,
      13, 10>>

\* "Sec-WebSocket-Accept: ", "abc=\r\n", "\r\n", "Upgrade: websocket\r\n" and
\* "HTTP/1.1 400 Bad Request\r\n".
AcceptName ==
    <<83, 101, 99, 45, 87, 101, 98, 83, 111, 99, 107, 101, 116, 45, 65, 99,
      99, 101, 112, 116, 58, 32>>

AcceptValue == <<97, 98, 99, 61, 13, 10>>

CrLf == <<13, 10>>

UpgradeLine ==
    <<85, 112, 103, 114, 97, 100, 101, 58, 32, 119, 101, 98, 115, 111, 99,
      107, 101, 116, 13, 10>>

BadStatusLine ==
    <<72, 84, 84, 80, 47, 49, 46, 49, 32, 52, 48, 48, 32, 66, 97, 100, 32, 82,
      101, 113, 117, 101, 115, 116, 13, 10>>

\* The responses a server may give, and the frames it sends right after.
Responses ==
    {StatusLine \o UpgradeLine \o AcceptName \o AcceptValue \o CrLf,
     StatusLine \o AcceptName \o AcceptValue \o CrLf,
     StatusLine \o UpgradeLine \o CrLf,
     BadStatusLine \o CrLf}

FirstFrames ==
    {<<>>, ServerFrame(TRUE, 1, Hello), ServerFrame(FALSE, 1, Hel)}

\* std::str::from_utf8(data).is_ok(): whether the bytes are well-formed
\* UTF-8.
RECURSIVE Utf8Valid(_)
Utf8Valid(bs) ==
    LET n == Len(bs)
        cont(i) == i <= n /\ bs[i] >= 128 /\ bs[i] <= 191
        b == bs[1]
    IN  IF n = 0 THEN TRUE
        ELSE IF b < 128 THEN Utf8Valid(Tail(bs))
        ELSE IF b >= 194 /\ b <= 223 THEN
            cont(2) /\ Utf8Valid(SubSeq(bs, 3, n))
        ELSE IF b >= 224 /\ b <= 239 THEN
            /\ cont(2) /\ cont(3)
            /\ (b = 224 => bs[2] >= 160)
            /\ (b = 237 => bs[2] <= 159)
            /\ Utf8Valid(SubSeq(bs, 4, n))
        ELSE IF b >= 240 /\ b <= 244 THEN
            /\ cont(2) /\ cont(3) /\ cont(4)
            /\ (b = 240 => bs[2] >= 144)
            /\ (b = 244 => bs[2] <= 143)
            /\ Utf8Valid(SubSeq(bs, 5, n))
        ELSE FALSE

\* str::strip_prefix(prefix).is_some()
HasPrefix(bs, prefix) ==
    Len(bs) >= Len(prefix) /\ SubSeq(bs, 1, Len(prefix)) = prefix

\* headers_from_raw(req).get_sec_ws_accept_key().is_some(): a header line
\* "Sec-WebSocket-Accept: <value>\r\n" among the lines of req.
HasAcceptKey(req) ==
    \E i \in 1..Len(req) :
        /\ i = 1 \/ req[i - 1] = 10
        /\ HasPrefix(SubSeq(req, i, Len(req)), AcceptName)
        /\ \E j \in (i + Len(AcceptName))..(Len(req) - 1) :
              req[j] = 13 /\ req[j + 1] = 10

\* Websocket::<CLIENT>::connect_with_headers after the request is written:
\* fill_buf hands out the `seen` bytes that have arrived; they must be
\* UTF-8, start with the status line and carry an accept key. Nothing is
\* consumed: the Websocket takes the BufReader as it is.
Connect ==
    /\ phase = "start"
    /\ \E seen \in 1..Len(stream) :
          LET data == SubSeq(stream, 1, seen)
              ok   == /\ Utf8Valid(data)
                      /\ HasPrefix(data, StatusLine)
                      /\ HasAcceptKey(SubSeq(data, Len(StatusLine) + 1, seen))
          IN  /\ ret' = [op |-> "connect", ok |-> ok, seen |-> seen]
              /\ phase' = IF ok THEN "open" ELSE "failed"
    /\ ws_len' = 0
    /\ ws_fin' = TRUE
    /\ UNCHANGED <<stream, pos, http, declared, delivered, encodeVars>>

\* The server's bytes: a response, then the first frame. `http` is where
\* the response ends.
InitConnect ==
    /\ \E r \in Responses, f \in FirstFrames :
          /\ stream = r \o f
          /\ http = Len(r)
    /\ pos = 0
    /\ ws_len = 0
    /\ ws_fin = TRUE
    /\ phase = "start"
    /\ ret = NoRet
    /\ declared = 0
    /\ delivered = 0
    /\ NoEncode

NextConnect == Connect \/ Recv

SpecConnect == InitConnect /\ [][NextConnect]_vars

\* C8 (as claimed): after a successful connect the transport is positioned
\* at the start of the first frame: every byte of the HTTP response was
\* consumed, and the first recv reads no byte of the response as a frame
\* byte.
C8_PositionedAtFirstFrame ==
    /\ (ret.op = "connect" /\ ret.ok) => pos = http
    /\ ret.op = "recv" => pos >= http

=============================================================================
